---- MODULE Spec2Model ----
(***************************************************************************)
(* StaticLang runtime (staticlang/runtime/builtin.c): the allocator        *)
(* facade, the owning string utilities and the DEBUG_MEMORY ledger.        *)
(*                                                                         *)
(* The heap is a function from the addresses of the live blocks to their   *)
(* bytes.  The host allocator (malloc, calloc, free) is modelled by what   *)
(* it does to that function; its free choices (which fresh address, or     *)
(* failure) are inputs of the actions.  size_t is modelled with SizeBits   *)
(* bits, so that the wrap-around of the ledger counters is reachable.      *)
(***************************************************************************)
EXTENDS Integers, Sequences, FiniteSets, TLC

VARIABLES
    DEBUG_MEMORY,      \* the build: TRUE when compiled with -DDEBUG_MEMORY
    heap,              \* live heap blocks: address -> sequence of bytes
    allocated_bytes,   \* builtin.c:112 (size_t)
    allocation_count,  \* builtin.c:113 (size_t)
    status,            \* "running"; "ub_ignored" once an undefined call was
                       \* survived; "aborted" or "undefined" when the run ended
    last,              \* the call that just returned: operation, arguments,
                       \* result, host calls, the line it wrote to stderr, and
                       \* the heap and the ledger as they were when it began
    traced,            \* history: only debug_allocate/debug_release were called
    N, M, S,           \* history: debug_allocate calls, debug_release calls,
                       \*          sum of the sizes requested by the N calls
    Nok, Mnn, Sok,     \* history: successful debug_allocate calls, debug_release
                       \*          calls on a non-NULL block, sum of sizes granted
    balance,           \* history: successful debug_allocate calls minus
                       \*          non-NULL debug_release calls, over the whole run
    mk                 \* history: the last successful make_string (source, result)
                       \*          and the result of the one before it, if that
                       \*          had the same source and is still live

vars == <<DEBUG_MEMORY, heap, allocated_bytes, allocation_count, status,
          last, traced, N, M, S, Nok, Mnn, Sok, balance, mk>>

----------------------------------------------------------------------------
(* Bounds of the model *)

MaxBlocks == 2
MaxSize == 2
MaxStrLen == 2
SizeBits == 2
MaxCalls == 3
MaxDebt == 1

----------------------------------------------------------------------------
(* Values *)

NULL == 0
Indet == -1

SizeMod == 2 ^ SizeBits

HeapAddr == 1 .. MaxBlocks

StaticMem == (101 :> <<1, 0>>) @@ (102 :> <<2, 0>>)

StaticAddr == DOMAIN StaticMem

UBOutcomes == {"ignored", "aborted", "undefined"}

Live(h) == DOMAIN h

Bytes(h, p) == IF p \in StaticAddr THEN StaticMem[p] ELSE h[p]

----------------------------------------------------------------------------
(* <string.h> *)

strlen(s) ==
    IF \E i \in 1 .. Len(s) : s[i] = 0
    THEN (CHOOSE i \in 1 .. Len(s) : s[i] = 0 /\ \A j \in 1 .. (i - 1) : s[j] # 0) - 1
    ELSE Len(s)

strcpy(dst, src) ==
    [i \in 1 .. Len(dst) |-> IF i <= strlen(src) + 1 /\ i <= Len(src) THEN src[i] ELSE dst[i]]

strcat(dst, src) ==
    LET n == strlen(dst)
    IN  [i \in 1 .. Len(dst) |->
            IF i > n /\ i <= n + strlen(src) + 1 /\ i - n <= Len(src)
            THEN src[i - n] ELSE dst[i]]

strcmp(s1, s2, unit) ==
    LET t1 == SubSeq(s1, 1, strlen(s1)) \o <<0>>
        t2 == SubSeq(s2, 1, strlen(s2)) \o <<0>>
    IN  IF t1 = t2 THEN 0
        ELSE LET i == CHOOSE k \in 1 .. Len(t1) :
                          /\ k <= Len(t2)
                          /\ t1[k] # t2[k]
                          /\ \A j \in 1 .. (k - 1) : t1[j] = t2[j]
                 d == t1[i] - t2[i]
             IN  IF unit THEN (IF d < 0 THEN -1 ELSE 1) ELSE d

IsString(h, p) ==
    /\ p \in StaticAddr \cup Live(h)
    /\ LET s == Bytes(h, p)
       IN  /\ \E i \in 1 .. Len(s) : s[i] = 0
           /\ \A j \in 1 .. strlen(s) : s[j] # Indet

Strings(h) == {p \in StaticAddr \cup Live(h) : IsString(h, p)}

CStr(h, p) == SubSeq(Bytes(h, p), 1, strlen(Bytes(h, p)))

----------------------------------------------------------------------------
(* <stdlib.h>: the host allocator.  c is the host's choice: a fresh address,
   or NULL when it fails.  free of an address that is not a live block is
   undefined behaviour; u is what the build makes of it: the call is ignored
   and the run goes on, the process is aborted, or anything else happens
   (the run is not followed further). *)

Fresh(h) == HeapAddr \ Live(h)

malloc(h, size, c) ==
    IF c = NULL
    THEN [ret |-> NULL, heap |-> h]
    ELSE [ret |-> c, heap |-> (c :> [i \in 1 .. size |-> Indet]) @@ h]

calloc(h, count, esize, c) ==
    IF c = NULL \/ count * esize >= SizeMod
    THEN [ret |-> NULL, heap |-> h]
    ELSE [ret |-> c, heap |-> (c :> [i \in 1 .. count * esize |-> 0]) @@ h]

free(h, p, u) ==
    IF p = NULL THEN [heap |-> h, ub |-> "none"]
    ELSE IF p \in Live(h)
    THEN [heap |-> [a \in Live(h) \ {p} |-> h[a]], ub |-> "none"]
    ELSE [heap |-> h, ub |-> u]

----------------------------------------------------------------------------
(* builtin.c: the functions, as functions of the heap (and the ledger), the
   arguments and the host allocator's choice.  hcall names the host primitive
   the call reached and req the number of bytes it asked the host for. *)

sl_malloc(h, size, c) ==
    LET m == malloc(h, size, c)
    IN  [ret |-> m.ret, heap |-> m.heap, hcall |-> "malloc", req |-> size]

sl_free(h, ptr, u) ==
    IF ptr # NULL
    THEN LET f == free(h, ptr, u)
         IN  [heap |-> f.heap, ub |-> f.ub, hcall |-> "free"]
    ELSE [heap |-> h, ub |-> "none", hcall |-> "none"]

(* sl_alloc_string, handing back its argument when the host allocation fails *)
sl_alloc_string_fallback(h, str, c) ==
    IF str = NULL
    THEN [ret |-> NULL, heap |-> h, hcall |-> "none", req |-> 0]
    ELSE LET len == strlen(Bytes(h, str))
             m == malloc(h, len + 1, c)
         IN  IF m.ret # NULL
             THEN [ret |-> m.ret,
                   heap |-> [m.heap EXCEPT ![m.ret] = strcpy(@, Bytes(h, str))],
                   hcall |-> "malloc", req |-> len + 1]
             ELSE [ret |-> str, heap |-> m.heap, hcall |-> "malloc", req |-> len + 1]

(* sl_alloc_string, allocating no byte for the terminator *)
sl_alloc_string_noterm(h, str, c) ==
    IF str = NULL
    THEN [ret |-> NULL, heap |-> h, hcall |-> "none", req |-> 0]
    ELSE LET len == strlen(Bytes(h, str))
             m == malloc(h, len, c)
         IN  IF m.ret # NULL
             THEN [ret |-> m.ret,
                   heap |-> [m.heap EXCEPT ![m.ret] = strcpy(@, Bytes(h, str))],
                   hcall |-> "malloc", req |-> len]
             ELSE [ret |-> m.ret, heap |-> m.heap, hcall |-> "malloc", req |-> len]

sl_alloc_string(h, str, c) ==
    IF str = NULL
    THEN [ret |-> NULL, heap |-> h, hcall |-> "none", req |-> 0]
    ELSE LET len == strlen(Bytes(h, str))
             m == malloc(h, len + 1, c)
         IN  IF m.ret # NULL
             THEN [ret |-> m.ret,
                   heap |-> [m.heap EXCEPT ![m.ret] = strcpy(@, Bytes(h, str))],
                   hcall |-> "malloc", req |-> len + 1]
             ELSE [ret |-> m.ret, heap |-> m.heap, hcall |-> "malloc", req |-> len + 1]

(* sl_concat_string, returning the non-NULL operand itself when the other is NULL *)
sl_concat_string_alias(h, str1, str2, c) ==
    IF str1 = NULL /\ str2 = NULL
    THEN [ret |-> NULL, heap |-> h, hcall |-> "none", req |-> 0]
    ELSE IF str1 = NULL THEN [ret |-> str2, heap |-> h, hcall |-> "none", req |-> 0]
    ELSE IF str2 = NULL THEN [ret |-> str1, heap |-> h, hcall |-> "none", req |-> 0]
    ELSE LET len1 == strlen(Bytes(h, str1))
             len2 == strlen(Bytes(h, str2))
             m == malloc(h, len1 + len2 + 1, c)
         IN  IF m.ret # NULL
             THEN [ret |-> m.ret,
                   heap |-> [m.heap EXCEPT
                               ![m.ret] = strcat(strcpy(@, Bytes(h, str1)), Bytes(h, str2))],
                   hcall |-> "malloc", req |-> len1 + len2 + 1]
             ELSE [ret |-> m.ret, heap |-> m.heap, hcall |-> "malloc",
                   req |-> len1 + len2 + 1]

(* sl_concat_string, appending str1 to str2 instead of str2 to str1 *)
sl_concat_string_swapped(h, str1, str2, c) ==
    IF str1 = NULL /\ str2 = NULL
    THEN [ret |-> NULL, heap |-> h, hcall |-> "none", req |-> 0]
    ELSE IF str1 = NULL THEN sl_alloc_string(h, str2, c)
    ELSE IF str2 = NULL THEN sl_alloc_string(h, str1, c)
    ELSE LET len1 == strlen(Bytes(h, str1))
             len2 == strlen(Bytes(h, str2))
             m == malloc(h, len1 + len2 + 1, c)
         IN  IF m.ret # NULL
             THEN [ret |-> m.ret,
                   heap |-> [m.heap EXCEPT
                               ![m.ret] = strcat(strcpy(@, Bytes(h, str2)), Bytes(h, str1))],
                   hcall |-> "malloc", req |-> len1 + len2 + 1]
             ELSE [ret |-> m.ret, heap |-> m.heap, hcall |-> "malloc",
                   req |-> len1 + len2 + 1]

sl_concat_string(h, str1, str2, c) ==
    IF str1 = NULL /\ str2 = NULL
    THEN [ret |-> NULL, heap |-> h, hcall |-> "none", req |-> 0]
    ELSE IF str1 = NULL THEN sl_alloc_string(h, str2, c)
    ELSE IF str2 = NULL THEN sl_alloc_string(h, str1, c)
    ELSE LET len1 == strlen(Bytes(h, str1))
             len2 == strlen(Bytes(h, str2))
             m == malloc(h, len1 + len2 + 1, c)
         IN  IF m.ret # NULL
             THEN [ret |-> m.ret,
                   heap |-> [m.heap EXCEPT
                               ![m.ret] = strcat(strcpy(@, Bytes(h, str1)), Bytes(h, str2))],
                   hcall |-> "malloc", req |-> len1 + len2 + 1]
             ELSE [ret |-> m.ret, heap |-> m.heap, hcall |-> "malloc",
                   req |-> len1 + len2 + 1]

(* sl_compare_string, treating a NULL first operand as equal to anything *)
sl_compare_string_onesided(h, str1, str2, unit) ==
    IF str1 = NULL THEN 0
    ELSE IF str2 = NULL THEN 1
    ELSE strcmp(Bytes(h, str1), Bytes(h, str2), unit)

sl_compare_string(h, str1, str2, unit) ==
    IF str1 = NULL /\ str2 = NULL THEN 0
    ELSE IF str1 = NULL \/ str2 = NULL THEN 1
    ELSE strcmp(Bytes(h, str1), Bytes(h, str2), unit)

sl_alloc_array(h, element_size, count, c) ==
    LET m == calloc(h, count, element_size, c)
    IN  [ret |-> m.ret, heap |-> m.heap, hcall |-> "calloc",
         req |-> count * element_size]

(* sl_debug_malloc, updating the ledger whether or not the host allocation succeeded *)
sl_debug_malloc_unchecked(h, bytes, count, size, c) ==
    LET m == malloc(h, size, c)
    IN  [ret |-> m.ret, heap |-> m.heap, hcall |-> "malloc", req |-> size,
         bytes |-> (bytes + size) % SizeMod,
         count |-> (count + 1) % SizeMod,
         err |-> <<"ALLOC", size, m.ret>>]

sl_debug_malloc(h, bytes, count, size, c) ==
    LET m == malloc(h, size, c)
    IN  IF m.ret # NULL
        THEN [ret |-> m.ret, heap |-> m.heap, hcall |-> "malloc", req |-> size,
              bytes |-> (bytes + size) % SizeMod,
              count |-> (count + 1) % SizeMod,
              err |-> <<"ALLOC", size, m.ret>>]
        ELSE [ret |-> m.ret, heap |-> m.heap, hcall |-> "malloc", req |-> size,
              bytes |-> bytes, count |-> count, err |-> << >>]

(* sl_debug_free, without the test for NULL *)
sl_debug_free_unchecked(h, count, ptr, u) ==
    LET f == free(h, ptr, u)
    IN  [heap |-> f.heap, ub |-> f.ub, hcall |-> "free",
         count |-> (count - 1) % SizeMod, err |-> <<"FREE", ptr>>]

(* sl_debug_free, keeping the books but never calling free *)
sl_debug_free_leak(h, count, ptr, u) ==
    IF ptr # NULL
    THEN [heap |-> h, ub |-> "none", hcall |-> "none",
          count |-> (count - 1) % SizeMod, err |-> <<"FREE", ptr>>]
    ELSE [heap |-> h, ub |-> "none", hcall |-> "none",
          count |-> count, err |-> << >>]

sl_debug_free(h, count, ptr, u) ==
    IF ptr # NULL
    THEN LET f == free(h, ptr, u)
         IN  [heap |-> f.heap, ub |-> f.ub, hcall |-> "free",
              count |-> (count - 1) % SizeMod, err |-> <<"FREE", ptr>>]
    ELSE [heap |-> h, ub |-> "none", hcall |-> "none",
          count |-> count, err |-> << >>]

sl_print_memory_stats(bytes, count) == <<"STATS", bytes, count>>

----------------------------------------------------------------------------
(* The state machine: one action per exported function, called by the
   generated code with every argument the bounds allow.  A call leaves its
   arguments and results in last; Resume is the generated code taking the
   result and going on to its next call. *)

NoCall == [op |-> "none", a1 |-> NULL, a2 |-> NULL, ret |-> NULL, c |-> NULL,
           hcall |-> "none", req |-> 0, ub |-> "none", err |-> << >>,
           heap0 |-> << >>, bytes0 |-> 0, count0 |-> 0]

NoString == [src |-> NULL, ret |-> NULL, prev |-> NULL]

Call(op, a1, a2, ret, c, hcall, req, ub, err) ==
    [op |-> op, a1 |-> a1, a2 |-> a2, ret |-> ret, c |-> c, hcall |-> hcall,
     req |-> req, ub |-> ub, err |-> err,
     heap0 |-> heap, bytes0 |-> allocated_bytes, count0 |-> allocation_count]

Init ==
    /\ DEBUG_MEMORY \in BOOLEAN
    /\ heap = << >>
    /\ allocated_bytes = 0
    /\ allocation_count = 0
    /\ status = "running"
    /\ last = NoCall
    /\ traced = TRUE
    /\ N = 0 /\ M = 0 /\ S = 0
    /\ Nok = 0 /\ Mnn = 0 /\ Sok = 0
    /\ balance = 0
    /\ mk = NoString

Untraced ==
    /\ traced' = FALSE
    /\ N' = 0 /\ M' = 0 /\ S' = 0
    /\ Nok' = 0 /\ Mnn' = 0 /\ Sok' = 0

Released(ptr) ==
    IF ptr = NULL THEN mk
    ELSE IF ptr \in {mk.src, mk.ret} THEN NoString
    ELSE IF ptr = mk.prev THEN [mk EXCEPT !.prev = NULL]
    ELSE mk

Made(str, ret) ==
    IF ret = NULL THEN mk
    ELSE [src |-> str, ret |-> ret, prev |-> IF mk.src = str THEN mk.ret ELSE NULL]

After(ub) ==
    IF ub = "none" THEN status
    ELSE IF ub = "ignored" THEN "ub_ignored"
    ELSE ub

AtCaller == status \in {"running", "ub_ignored"} /\ last = NoCall

HostChoices == Fresh(heap) \cup {NULL}

Pointers == HeapAddr \cup {NULL}

Outcomes(ptr) == IF ptr # NULL /\ ptr \notin Live(heap) THEN UBOutcomes ELSE {"none"}

StringArgs == Strings(heap) \cup {NULL}

Call_sl_malloc ==
    \E size \in 0 .. MaxSize, c \in HostChoices :
        LET r == sl_malloc(heap, size, c)
        IN  /\ AtCaller
            /\ heap' = r.heap
            /\ last' = Call("sl_malloc", size, NULL, r.ret, c, r.hcall, r.req,
                            "none", << >>)
            /\ Untraced
            /\ UNCHANGED <<DEBUG_MEMORY, allocated_bytes, allocation_count, status,
                           balance, mk>>

Call_sl_free ==
    \E ptr \in Pointers : \E u \in Outcomes(ptr) :
        LET r == sl_free(heap, ptr, u)
        IN  /\ AtCaller
            /\ heap' = r.heap
            /\ status' = After(r.ub)
            /\ last' = Call("sl_free", ptr, NULL, NULL, NULL, r.hcall, 0, r.ub, << >>)
            /\ mk' = Released(ptr)
            /\ Untraced
            /\ UNCHANGED <<DEBUG_MEMORY, allocated_bytes, allocation_count, balance>>

Call_sl_alloc_array ==
    \E element_size \in 0 .. MaxSize, count \in 0 .. MaxSize, c \in HostChoices :
        LET r == sl_alloc_array(heap, element_size, count, c)
        IN  /\ AtCaller
            /\ count * element_size <= MaxSize \/ count * element_size >= SizeMod
            /\ heap' = r.heap
            /\ last' = Call("sl_alloc_array", element_size, count, r.ret, c,
                            r.hcall, r.req, "none", << >>)
            /\ Untraced
            /\ UNCHANGED <<DEBUG_MEMORY, allocated_bytes, allocation_count, status,
                           balance, mk>>

Call_sl_alloc_string ==
    \E str \in StringArgs, c \in HostChoices :
        LET r == sl_alloc_string(heap, str, c)
        IN  /\ AtCaller
            /\ heap' = r.heap
            /\ last' = Call("sl_alloc_string", str, NULL, r.ret, c, r.hcall, r.req,
                            "none", << >>)
            /\ mk' = Made(str, r.ret)
            /\ Untraced
            /\ UNCHANGED <<DEBUG_MEMORY, allocated_bytes, allocation_count, status,
                           balance>>

Call_sl_concat_string ==
    \E str1 \in StringArgs, str2 \in StringArgs, c \in HostChoices :
        LET r == sl_concat_string(heap, str1, str2, c)
        IN  /\ AtCaller
            /\ (str1 # NULL /\ str2 # NULL) =>
                   Len(CStr(heap, str1)) + Len(CStr(heap, str2)) <= MaxStrLen
            /\ heap' = r.heap
            /\ last' = Call("sl_concat_string", str1, str2, r.ret, c, r.hcall, r.req,
                            "none", << >>)
            /\ Untraced
            /\ UNCHANGED <<DEBUG_MEMORY, allocated_bytes, allocation_count, status,
                           balance, mk>>

Call_sl_compare_string ==
    \E str1 \in StringArgs, str2 \in StringArgs, unit \in BOOLEAN :
        /\ AtCaller
        /\ last' = Call("sl_compare_string", str1, str2,
                        sl_compare_string(heap, str1, str2, unit), NULL, "none", 0,
                        "none", << >>)
        /\ Untraced
        /\ UNCHANGED <<DEBUG_MEMORY, heap, allocated_bytes, allocation_count, status,
                       balance, mk>>

Call_sl_debug_malloc ==
    \E size \in 0 .. MaxSize, c \in HostChoices :
        LET r == sl_debug_malloc(heap, allocated_bytes, allocation_count, size, c)
            ok == IF r.ret # NULL THEN 1 ELSE 0
        IN  /\ DEBUG_MEMORY
            /\ AtCaller
            /\ traced => N < MaxCalls
            /\ balance + ok <= MaxCalls
            /\ heap' = r.heap
            /\ allocated_bytes' = r.bytes
            /\ allocation_count' = r.count
            /\ last' = Call("sl_debug_malloc", size, NULL, r.ret, c, r.hcall, r.req,
                            "none", r.err)
            /\ balance' = balance + ok
            /\ IF traced
               THEN /\ N' = N + 1 /\ S' = S + size
                    /\ Nok' = Nok + ok /\ Sok' = Sok + ok * size
               ELSE UNCHANGED <<N, S, Nok, Sok>>
            /\ UNCHANGED <<DEBUG_MEMORY, status, traced, M, Mnn, mk>>

Call_sl_debug_free ==
    \E ptr \in Pointers : \E u \in Outcomes(ptr) :
        LET r == sl_debug_free(heap, allocation_count, ptr, u)
            nn == IF ptr # NULL THEN 1 ELSE 0
        IN  /\ DEBUG_MEMORY
            /\ AtCaller
            /\ traced => M < MaxCalls
            /\ balance - nn >= -MaxDebt
            /\ heap' = r.heap
            /\ status' = After(r.ub)
            /\ allocation_count' = r.count
            /\ last' = Call("sl_debug_free", ptr, NULL, NULL, NULL, r.hcall, 0, r.ub,
                            r.err)
            /\ mk' = Released(ptr)
            /\ balance' = balance - nn
            /\ IF traced
               THEN M' = M + 1 /\ Mnn' = Mnn + nn
               ELSE UNCHANGED <<M, Mnn>>
            /\ UNCHANGED <<DEBUG_MEMORY, allocated_bytes, traced, N, S, Nok, Sok>>

Call_sl_print_memory_stats ==
    /\ DEBUG_MEMORY
    /\ AtCaller
    /\ last' = Call("sl_print_memory_stats", NULL, NULL, NULL, NULL, "none", 0, "none",
                    sl_print_memory_stats(allocated_bytes, allocation_count))
    /\ UNCHANGED <<DEBUG_MEMORY, heap, allocated_bytes, allocation_count, status,
                   traced, N, M, S, Nok, Mnn, Sok, balance, mk>>

Resume ==
    /\ status \in {"running", "ub_ignored"}
    /\ last # NoCall
    /\ last' = NoCall
    /\ UNCHANGED <<DEBUG_MEMORY, heap, allocated_bytes, allocation_count, status,
                   traced, N, M, S, Nok, Mnn, Sok, balance, mk>>

Next ==
    \/ Call_sl_malloc
    \/ Call_sl_free
    \/ Call_sl_alloc_array
    \/ Call_sl_alloc_string
    \/ Call_sl_concat_string
    \/ Call_sl_compare_string
    \/ Call_sl_debug_malloc
    \/ Call_sl_debug_free
    \/ Call_sl_print_memory_stats
    \/ Resume

Spec == Init /\ [][Next]_vars

(* The generated code using only the allocator facade and its debug variants:
   no string is built, so every block is a raw one. *)
NextLedger ==
    \/ Call_sl_malloc
    \/ Call_sl_free
    \/ Call_sl_debug_malloc
    \/ Call_sl_debug_free
    \/ Call_sl_print_memory_stats
    \/ Resume

SpecLedger == Init /\ [][NextLedger]_vars

----------------------------------------------------------------------------
(* Properties.  Each is a predicate on the state a call leaves: last holds the
   call, last.heap0 the heap it started from. *)

AllocOps == {"sl_malloc", "sl_alloc_array", "sl_alloc_string", "sl_concat_string"}

OneNull(a, b) == (a = NULL) # (b = NULL)

(* C1, as claimed: in a debug build, after N debug_allocate calls and M
   debug_release calls and nothing else (M <= N), the live-allocation count is
   N - M and the cumulative bytes are the sum of the sizes the N calls asked
   for. *)
C1_AsClaimed ==
    (DEBUG_MEMORY /\ traced /\ M <= N) =>
        /\ allocation_count = N - M
        /\ allocated_bytes = S

(* C1, amended: while every release was of a live block or of NULL, counting
   only the debug_allocate calls that succeeded (Nok, their sizes summing to
   Sok) and the debug_release calls on a non-NULL block (Mnn <= Nok), the
   live-allocation count is Nok - Mnn and the cumulative bytes are Sok modulo
   2^SizeBits, the range of size_t. *)
C1_Ledger ==
    (DEBUG_MEMORY /\ traced /\ status = "running" /\ Mnn <= Nok) =>
        /\ allocation_count = Nok - Mnn
        /\ allocated_bytes = Sok % SizeMod

C1_Witness ==
    /\ DEBUG_MEMORY /\ traced /\ status = "running"
    /\ N > Nok /\ Nok >= 2 /\ M > Mnn /\ Mnn >= 1 /\ Mnn <= Nok
    /\ Sok >= SizeMod

(* C2: in a debug build every successful allocation through the facade
   (allocate, allocate_array, make_string, concat) raises the live-allocation
   count by one and the cumulative bytes by the size requested, and every
   release of a non-NULL block lowers the count by one. *)
C2_FacadeTracked ==
    DEBUG_MEMORY =>
        /\ (last.op \in AllocOps /\ last.ret # NULL) =>
               /\ allocation_count = (last.count0 + 1) % SizeMod
               /\ allocated_bytes = (last.bytes0 + last.req) % SizeMod
        /\ (last.op = "sl_free" /\ last.a1 # NULL) =>
               allocation_count = (last.count0 - 1) % SizeMod

(* C3: in a debug build whose behaviour is defined so far, whenever more
   non-NULL blocks went through debug_release than debug_allocate handed out,
   the live-allocation count is below zero. *)
C3_NegativeCount ==
    (DEBUG_MEMORY /\ status = "running" /\ balance < 0) => allocation_count < 0

(* C4: release(NULL) and debug_release(NULL) do nothing: the heap is the one
   the call started from, the host free is not called, nothing undefined
   happens and both ledger counters keep their values. *)
C4_ReleaseNull ==
    (last.op \in {"sl_free", "sl_debug_free"} /\ last.a1 = NULL) =>
        /\ heap = last.heap0
        /\ last.hcall = "none"
        /\ last.ub = "none"
        /\ last.err = << >>
        /\ allocation_count = last.count0
        /\ allocated_bytes = last.bytes0

C4_Witness ==
    /\ last.op = "sl_debug_free" /\ last.a1 = NULL
    /\ Live(heap) # {}
    /\ allocation_count > 0

(* C5: concat(NULL, NULL) returns NULL and allocates nothing; concat with
   exactly one NULL operand returns, when the host allocation succeeds, a
   block that was not live before, is not the operand's block, and holds the
   operand's string, the operand being left as it was. *)
C5_ConcatOneNull ==
    last.op = "sl_concat_string" =>
        LET h0 == last.heap0
            s == IF last.a1 = NULL THEN last.a2 ELSE last.a1
        IN  /\ (last.a1 = NULL /\ last.a2 = NULL) =>
                   /\ last.ret = NULL
                   /\ heap = h0
                   /\ last.hcall = "none"
            /\ OneNull(last.a1, last.a2) =>
                   /\ last.c # NULL => last.ret # NULL
                   /\ last.ret # NULL =>
                          /\ last.ret # s
                          /\ last.ret \notin Live(h0) \cup StaticAddr
                          /\ Live(heap) = Live(h0) \cup {last.ret}
                          /\ IsString(heap, last.ret)
                          /\ CStr(heap, last.ret) = CStr(h0, s)
                          /\ \A p \in Live(h0) : heap[p] = h0[p]

C5_Witness ==
    /\ last.op = "sl_concat_string"
    /\ last.a1 \in Live(last.heap0) /\ last.a2 = NULL
    /\ last.ret # NULL
    /\ Len(CStr(heap, last.ret)) = MaxStrLen

(* C6: for non-NULL a and b, concat(a, b) returns, when the host allocation
   succeeds, a new block of exactly length(a) + length(b) + 1 bytes holding
   the bytes of a, then the bytes of b, then the terminator; every block live
   before the call, a and b among them, is still live and unchanged. *)
C6_ConcatBoth ==
    (last.op = "sl_concat_string" /\ last.a1 # NULL /\ last.a2 # NULL) =>
        LET h0 == last.heap0
            a == CStr(h0, last.a1)
            b == CStr(h0, last.a2)
        IN  /\ last.c # NULL => last.ret # NULL
            /\ last.ret # NULL =>
                   /\ last.ret \notin Live(h0) \cup StaticAddr
                   /\ Live(heap) = Live(h0) \cup {last.ret}
                   /\ last.req = Len(a) + Len(b) + 1
                   /\ Len(heap[last.ret]) = Len(a) + Len(b) + 1
                   /\ heap[last.ret] = a \o b \o <<0>>
                   /\ strlen(heap[last.ret]) = strlen(Bytes(h0, last.a1))
                                               + strlen(Bytes(h0, last.a2))
                   /\ \A p \in Live(h0) : heap[p] = h0[p]

C6_Witness ==
    /\ last.op = "sl_concat_string"
    /\ last.a1 \in Live(last.heap0) /\ last.a2 \in StaticAddr
    /\ last.ret # NULL
    /\ CStr(heap, last.a1) # << >>
    /\ CStr(heap, last.ret) = CStr(heap, last.a1) \o CStr(heap, last.a2)

(* C7: compare(NULL, NULL) is 0; compare with exactly one NULL operand is
   nonzero, whichever side is NULL; compare of two strings is 0 exactly when
   their bytes are equal; and the call with the operands swapped is zero
   exactly when this one is. *)
C7_Compare ==
    last.op = "sl_compare_string" =>
        /\ (last.a1 = NULL /\ last.a2 = NULL) => last.ret = 0
        /\ OneNull(last.a1, last.a2) => last.ret # 0
        /\ (last.a1 # NULL /\ last.a2 # NULL) =>
               ((last.ret = 0) <=> (CStr(heap, last.a1) = CStr(heap, last.a2)))
        /\ \A unit \in BOOLEAN :
               (sl_compare_string(heap, last.a2, last.a1, unit) = 0) <=> (last.ret = 0)
        /\ heap = last.heap0

C7_Witness ==
    /\ last.op = "sl_compare_string"
    /\ last.a1 \in Live(heap) /\ last.a2 \in StaticAddr
    /\ last.ret = 0

(* C8: when the host allocator fails inside make_string or concat (the
   one-NULL path of concat included), the call returns NULL and the heap is
   the one it started from. *)
C8_FailureLeavesHeap ==
    (/\ last.op \in {"sl_alloc_string", "sl_concat_string"}
     /\ last.hcall = "malloc"
     /\ last.c = NULL) =>
        /\ last.ret = NULL
        /\ heap = last.heap0

C8_Witness ==
    /\ last.op = "sl_concat_string"
    /\ last.a1 = NULL /\ last.a2 \in Live(heap)
    /\ last.hcall = "malloc" /\ last.c = NULL
    /\ last.ret = NULL

(* C9: make_string(NULL) returns NULL and allocates nothing; make_string(s)
   returns, when the host allocation succeeds, a block that was not live
   before, is not s, has exactly length(s) + 1 bytes and compares equal to s;
   and the results of two calls on the same s, both still live, are two
   different blocks, neither of them s, that compare equal. *)
C9_MakeString ==
    /\ last.op = "sl_alloc_string" =>
           LET h0 == last.heap0
           IN  /\ last.a1 = NULL =>
                      /\ last.ret = NULL
                      /\ heap = h0
                      /\ last.hcall = "none"
               /\ (last.a1 # NULL /\ last.c # NULL) => last.ret # NULL
               /\ last.ret # NULL =>
                      /\ last.ret # last.a1
                      /\ last.ret \notin Live(h0) \cup StaticAddr
                      /\ Live(heap) = Live(h0) \cup {last.ret}
                      /\ last.req = Len(CStr(h0, last.a1)) + 1
                      /\ Len(heap[last.ret]) = Len(CStr(h0, last.a1)) + 1
                      /\ \A unit \in BOOLEAN :
                             sl_compare_string(heap, last.ret, last.a1, unit) = 0
    /\ mk.prev # NULL =>
           /\ mk.prev # mk.ret
           /\ {mk.prev, mk.ret} \subseteq Live(heap)
           /\ mk.src \notin {mk.prev, mk.ret}
           /\ \A unit \in BOOLEAN :
                  sl_compare_string(heap, mk.prev, mk.ret, unit) = 0

C9_Witness ==
    /\ last.op = "sl_alloc_string"
    /\ last.ret # NULL
    /\ mk.src = last.a1 /\ mk.ret = last.ret
    /\ mk.prev # NULL

(* C10: debug_allocate returns what allocate returns for the same request and
   the same answer of the host, NULL exactly when the host fails and otherwise
   a block of the requested size that was not live before, and leaves the heap
   allocate leaves; a failed debug_allocate leaves the ledger unchanged and
   writes nothing; debug_release leaves the heap release leaves: unchanged for
   NULL, without the block (and nothing else touched) for a live block. *)
C10_DebugTransparent ==
    /\ last.op = "sl_debug_malloc" =>
           LET h0 == last.heap0
               p == sl_malloc(h0, last.a1, last.c)
           IN  /\ last.ret = p.ret
               /\ heap = p.heap
               /\ last.hcall = p.hcall
               /\ last.req = p.req
               /\ (last.ret = NULL) <=> (last.c = NULL)
               /\ last.ret # NULL =>
                      /\ last.ret \notin Live(h0)
                      /\ Live(heap) = Live(h0) \cup {last.ret}
                      /\ Len(heap[last.ret]) = last.a1
                      /\ \A q \in Live(h0) : heap[q] = h0[q]
               /\ last.ret = NULL =>
                      /\ allocated_bytes = last.bytes0
                      /\ allocation_count = last.count0
                      /\ last.err = << >>
    /\ last.op = "sl_debug_free" =>
           LET h0 == last.heap0
               f == sl_free(h0, last.a1, last.ub)
           IN  /\ heap = f.heap
               /\ last.hcall = f.hcall
               /\ last.ub = f.ub
               /\ last.a1 = NULL => heap = h0
               /\ last.a1 \in Live(h0) =>
                      /\ Live(heap) = Live(h0) \ {last.a1}
                      /\ \A q \in Live(heap) : heap[q] = h0[q]
               /\ allocated_bytes = last.bytes0

C10_Witness ==
    /\ last.op = "sl_debug_malloc"
    /\ last.c = NULL /\ last.ret = NULL
    /\ last.count0 > 0 /\ last.bytes0 > 0
    /\ Live(heap) # {}

====
